---- MODULE Spec2Model ----
(***************************************************************************)
(* A model of grimp's Rust core: the import-chain queries of the graph     *)
(* (rust/src/graph/import_chain_queries.rs), the cache codec               *)
(* (rust/src/caching.rs), the import scanner (rust/src/import_scanning.rs) *)
(* and the file-system variants (rust/src/filesystem.rs).                  *)
(*                                                                         *)
(* Strings are sequences of tokens.  A dotted name such as pkg.sub is      *)
(* <<"pkg", ".", "sub">>: the separator is a token of its own, so that     *)
(* split, join, starts_with and slicing are computed as the code computes  *)
(* them.                                                                   *)
(***************************************************************************)
EXTENDS Integers, Sequences, FiniteSets, TLC

VARIABLES
    \* ---- graph queries
    imports,            \* Graph.imports: token -> set of tokens
    call,               \* the query being served
    from_modules,       \* _find_shortest_chains: from_modules
    to_modules,         \* _find_shortest_chains: to_modules
    excluded_modules,   \* _find_shortest_chains: excluded_modules
    excluded_imports,   \* _find_shortest_chains: excluded_imports (a partial map)
    chains,             \* _find_shortest_chains: chains
    last_search,        \* arguments and result of the latest shortest-chain search
    pc,                 \* position of the query
    result,             \* value returned to the caller
    \* ---- cache codec
    imports_by_module,  \* the dict handed to write_cache_data_map_file
    cache_filename,     \* filename
    file_contents,      \* file_contents: the document as text
    read_result,        \* what read_cache_data_map_file returned
    codec_pc,           \* position in the write / read exchange
    \* ---- cache files behind the file-system objects
    disk,               \* the host file system: path -> text
    fake_contents,      \* PyFakeBasicFileSystem.inner.contents: path -> text
    last_written,       \* per file-system object and path: the dict last written
    cache_read,         \* the latest call, when it is a read, and its result
    n_writes,           \* number of write_cache_data_map_file calls so far
    \* ---- relative-import resolution
    resolve_args,       \* module, is_package, imported_object_name, build profile
    resolve_out,        \* what _get_absolute_imported_object_name gave
    resolve_pc,         \* "start" before the call, "done" after it
    \* ---- the scanner
    scan_args,          \* the arguments of scan_for_imports_no_py and the build
    scan_remaining,     \* modules the loop has not taken yet
    scanned,            \* imports_by_module of scan_for_imports_no_py
    scan_result,        \* how the call ended: Ok(dict), an error, a panic
    scan_pc,            \* "loop", "done", "cached"
    \* ---- a function of the core called on its own
    fn_args,            \* the function and its arguments
    fn_out,             \* what it gave
    fn_pc               \* "start" before the call, "done" after it

graphVars == <<imports, call, from_modules, to_modules, excluded_modules,
               excluded_imports, chains, last_search, pc, result>>

codecVars == <<imports_by_module, cache_filename, file_contents, read_result,
               codec_pc>>

fsVars == <<disk, fake_contents, last_written, cache_read, n_writes>>

resolveVars == <<resolve_args, resolve_out, resolve_pc>>

scanVars == <<scan_args, scan_remaining, scanned, scan_result, scan_pc>>

fnVars == <<fn_args, fn_out, fn_pc>>

vars == <<graphVars, codecVars, fsVars, resolveVars, scanVars, fnVars>>

\* What an action of one part of the core leaves alone
notGraphVars == <<codecVars, fsVars, resolveVars, scanVars, fnVars>>

notCodecVars == <<graphVars, fsVars, resolveVars, scanVars, fnVars>>

notFsVars == <<graphVars, codecVars, resolveVars, scanVars, fnVars>>

notResolveVars == <<graphVars, codecVars, fsVars, scanVars, fnVars>>

notScanVars == <<graphVars, codecVars, fsVars, resolveVars, fnVars>>

notFnVars == <<graphVars, codecVars, fsVars, resolveVars, scanVars>>

(***************************************************************************)
(* Strings                                                                 *)
(***************************************************************************)
Dot == "."

Last(s) == s[Len(s)]

Range(s) == {s[i] : i \in 1..Len(s)}

\* str::starts_with
StartsWith(s, prefix) ==
    /\ Len(s) >= Len(prefix)
    /\ SubSeq(s, 1, Len(prefix)) = prefix

\* &s[k..]
DropFirst(s, k) == SubSeq(s, k + 1, Len(s))

\* module_name.starts_with(&format!("{potential_ancestor}."))
module_is_descendant(module_name, potential_ancestor) ==
    StartsWith(module_name, potential_ancestor \o <<Dot>>)

(***************************************************************************)
(* The graph store: interned module names, forward adjacency, hierarchy    *)
(***************************************************************************)
MaxEdges == 4

\* The intern table: token -> dotted name.
ModuleNames ==
    << <<"a">>, <<"a", Dot, "x">>, <<"b">>, <<"b", Dot, "y">> >>

ModuleToken == 1..Len(ModuleNames)

AllEdges == {e \in ModuleToken \X ModuleToken : e[1] # e[2]}

\* imports as a token -> set<token> map built from a set of edges
AdjacencyOf(E) == [u \in ModuleToken |-> {v \in ModuleToken : <<u, v>> \in E}]

EdgesOf(g) == {e \in ModuleToken \X ModuleToken : e[2] \in g[e[1]]}

\* "all descendants of M": the tokens whose names start with M.name + "."
Descendants(t) ==
    {d \in ModuleToken : module_is_descendant(ModuleNames[d], ModuleNames[t])}

\* ExtendWithDescendants: S union the descendants of every member of S
with_descendants(S) == S \cup UNION {Descendants(t) : t \in S}

(***************************************************************************)
(* Shortest path (graph::pathfinding::find_shortest_path)                  *)
(***************************************************************************)
NoChain == <<>>

\* excluded_imports is a map with missing keys: the set under u, or nothing
ExcludedOf(exi, u) == IF u \in DOMAIN exi THEN exi[u] ELSE {}

\* The import u -> v may be walked
Walkable(g, exm, exi, u, v) ==
    /\ v \in g[u]
    /\ v \notin ExcludedOf(exi, u)
    /\ u \notin exm
    /\ v \notin exm

RECURSIVE BfsDistance(_, _, _, _, _, _, _)
\* Breadth-first search by levels with a visited set: the number of edges of
\* a shortest walkable path from the first frontier to to_set, -1 if none.
BfsDistance(g, frontier, visited, to_set, exm, exi, d) ==
    IF frontier \cap to_set # {} THEN d
    ELSE IF frontier = {} THEN -1
    ELSE LET next == {v \in ModuleToken \ visited :
                         \E u \in frontier : Walkable(g, exm, exi, u, v)}
         IN  BfsDistance(g, next, visited \cup next, to_set, exm, exi, d + 1)

RECURSIVE WalksOfLength(_, _, _, _, _)
\* All walkable paths of exactly d edges that start in from_set
WalksOfLength(g, from_set, exm, exi, d) ==
    IF d = 0 THEN {<<s>> : s \in from_set \ exm}
    ELSE LET shorter == WalksOfLength(g, from_set, exm, exi, d - 1)
         IN  UNION {{Append(p, v) : v \in {w \in ModuleToken :
                        Walkable(g, exm, exi, Last(p), w)}} : p \in shorter}

\* The results find_shortest_path may return: {NoChain} when there is no path,
\* otherwise the paths of minimum edge count (which of them is returned is not
\* specified, so every one is an admissible result).
find_shortest_path(g, from_set, to_set, exm, exi) ==
    LET start == from_set \ exm
        d == BfsDistance(g, start, start, to_set \ exm, exm, exi, 0)
    IN  IF d = -1 THEN {NoChain}
        ELSE {p \in WalksOfLength(g, from_set, exm, exi, d) : Last(p) \in to_set}

(***************************************************************************)
(* Graph::find_shortest_chain_with_excluded_modules_and_imports            *)
(***************************************************************************)
\* The wrapper with excluded_modules not handed on to the search
find_shortest_chain_dropping_excluded_modules(g, from_set, to_set, exm, exi) ==
    find_shortest_path(g, from_set, to_set, {}, exi)

find_shortest_chain_with_excluded_modules_and_imports(g, from_set, to_set, exm, exi) ==
    find_shortest_path(g, from_set, to_set, exm, exi)

\* Graph::find_shortest_chain
find_shortest_chain(g, importer, imported, as_packages) ==
    IF as_packages
    THEN find_shortest_chain_with_excluded_modules_and_imports(
             g, with_descendants({importer}), with_descendants({imported}),
             {}, << >>)
    ELSE find_shortest_chain_with_excluded_modules_and_imports(
             g, {importer}, {imported}, {}, << >>)

\* Graph::chain_exists; the search is a function of its arguments, so
\* "is_some()" does not depend on which shortest chain was returned
chain_exists(g, importer, imported, as_packages) ==
    NoChain \notin find_shortest_chain(g, importer, imported, as_packages)

(***************************************************************************)
(* Graph::_find_shortest_chains: one iteration of the loop                 *)
(***************************************************************************)
\* chain.iter().tuple_windows()
TupleWindows(chain) == {<<chain[i], chain[i + 1]>> : i \in 1..(Len(chain) - 1)}

\* The loop body with the insertion left out: nothing is forbidden
ExcludeChain_nothing_inserted(exi, chain) == exi

\* for (importer, imported) in windows:
\*     excluded_imports.entry(importer).or_default().insert(imported)
ExcludeChain(exi, chain) ==
    LET pairs == TupleWindows(chain)
        keys  == DOMAIN exi \cup {p[1] : p \in pairs}
    IN  [u \in keys |-> ExcludedOf(exi, u) \cup {p[2] : p \in {q \in pairs : q[1] = u}}]

\* The pairs (u, v) with v in excluded_imports[u]
ExcludedPairs(exi) ==
    {e \in ModuleToken \X ModuleToken : e[2] \in ExcludedOf(exi, e[1])}

(***************************************************************************)
(* The graph queries as a state machine                                    *)
(***************************************************************************)
MaxExcluded == 1

\* The loop is cut after this many chains; a loop that forbids a new import
\* with every chain never gets there.
MaxChains == MaxEdges + 2

NoSearch ==
    [called |-> FALSE, from_set |-> {}, to_set |-> {}, exm |-> {},
     exi |-> << >>, chain |-> NoChain]

GraphIdle ==
    /\ call = [op |-> "none"]
    /\ from_modules = {}
    /\ to_modules = {}
    /\ excluded_modules = {}
    /\ excluded_imports = << >>
    /\ chains = << >>
    /\ last_search = NoSearch
    /\ pc = "idle"
    /\ result = {}

GraphInit ==
    /\ \E E \in SUBSET AllEdges :
          /\ Cardinality(E) <= MaxEdges
          /\ imports = AdjacencyOf(E)
    /\ GraphIdle

\* Graph::find_shortest_chains up to the first iteration of the loop
CallFindShortestChains ==
    /\ pc = "idle"
    /\ \E importer \in ModuleToken, imported \in ModuleToken, as_packages \in BOOLEAN :
          /\ call' = [op |-> "find_shortest_chains", importer |-> importer,
                      imported |-> imported, as_packages |-> as_packages]
          /\ IF ~chain_exists(imports, importer, imported, as_packages)
             THEN /\ pc' = "done"
                  /\ result' = {}
                  /\ UNCHANGED <<from_modules, to_modules>>
             ELSE /\ pc' = "loop"
                  /\ from_modules' = IF as_packages THEN with_descendants({importer})
                                                     ELSE {importer}
                  /\ to_modules' = IF as_packages THEN with_descendants({imported})
                                                   ELSE {imported}
                  /\ UNCHANGED result
    /\ excluded_modules' = {}
    /\ excluded_imports' = << >>
    /\ chains' = << >>
    /\ UNCHANGED <<imports, last_search>>
    /\ UNCHANGED notGraphVars

\* Graph::_find_shortest_chains entered by another query of the crate
CallFindShortestChainsWithExcluded ==
    /\ pc = "idle"
    /\ \E f \in ModuleToken, t \in ModuleToken, exm \in SUBSET ModuleToken :
          /\ Cardinality(exm) <= MaxExcluded
          /\ call' = [op |-> "_find_shortest_chains", from_set |-> {f},
                      to_set |-> {t}, exm |-> exm]
          /\ from_modules' = {f}
          /\ to_modules' = {t}
          /\ excluded_modules' = exm
    /\ pc' = "loop"
    /\ excluded_imports' = << >>
    /\ chains' = << >>
    /\ UNCHANGED <<imports, last_search, result>>
    /\ UNCHANGED notGraphVars

\* One iteration of the loop of _find_shortest_chains
PeelStep ==
    /\ pc = "loop"
    /\ Len(chains) < MaxChains
    /\ \E chain \in find_shortest_chain_with_excluded_modules_and_imports(
                        imports, from_modules, to_modules, excluded_modules,
                        excluded_imports) :
          /\ last_search' = [called |-> TRUE, from_set |-> from_modules,
                             to_set |-> to_modules, exm |-> excluded_modules,
                             exi |-> excluded_imports, chain |-> chain]
          /\ IF chain = NoChain
             THEN /\ pc' = "done"
                  /\ result' = Range(chains)
                  /\ UNCHANGED <<excluded_imports, chains>>
             ELSE /\ excluded_imports' = ExcludeChain(excluded_imports, chain)
                  /\ chains' = Append(chains, chain)
                  /\ UNCHANGED <<pc, result>>
    /\ UNCHANGED <<imports, call, from_modules, to_modules, excluded_modules>>
    /\ UNCHANGED notGraphVars

GraphNext ==
    \/ CallFindShortestChains
    \/ CallFindShortestChainsWithExcluded
    \/ PeelStep


(***************************************************************************)
(* Claims about the graph queries                                          *)
(***************************************************************************)
\* c is a chain of n modules from from_set to to_set that avoids the modules
\* exm and the imports in the set of pairs forbidden
IsAllowedChain(c, n, from_set, to_set, exm, forbidden) ==
    /\ n >= 1
    /\ c[1] \in from_set
    /\ c[n] \in to_set
    /\ \A i \in 1..n : c[i] \notin exm
    /\ \A i \in 1..(n - 1) :
          /\ c[i + 1] \in imports[c[i]]
          /\ <<c[i], c[i + 1]>> \notin forbidden

\* Some allowed chain has n modules
AllowedChainOfSize(n, from_set, to_set, exm, forbidden) ==
    \E c \in [1..n -> ModuleToken] :
        IsAllowedChain(c, n, from_set, to_set, exm, forbidden)

\* c is allowed and no allowed chain has fewer imports
IsShortestAllowedChain(c, from_set, to_set, exm, forbidden) ==
    /\ IsAllowedChain(c, Len(c), from_set, to_set, exm, forbidden)
    /\ \A n \in 1..(Len(c) - 1) :
          ~AllowedChainOfSize(n, from_set, to_set, exm, forbidden)

PairsOfChains(cs) == UNION {TupleWindows(cs[i]) : i \in 1..Len(cs)}

HasImportCycle == \E u \in ModuleToken, v \in ModuleToken :
                      u # v /\ v \in imports[u] /\ u \in imports[v]

\* C1 as stated: find_shortest_chains and the loop of _find_shortest_chains
\* terminate for every graph and every choice of importer, imported and
\* as_packages.  The search is a function of the graph and of its four
\* arguments, of which only excluded_imports changes in the loop: an iteration
\* that forbids no new import is repeated for ever.  So the loop terminates
\* exactly when every chain appended forbids an import of the graph that was
\* not yet forbidden, that is, when there are never more chains than forbidden
\* imports.
C1_TerminatesForEveryQuery ==
    pc # "idle" => Len(chains) <= Cardinality(ExcludedPairs(excluded_imports))

\* The loop of _find_shortest_chains does end when from_modules and
\* to_modules are disjoint: every chain appended then forbids a new import of
\* the graph, the loop can always take its next iteration, it has ended after
\* at most as many chains as the graph has imports, and the value returned is
\* the finite set of the chains appended.
ChainsLoopEndsWhenDisjoint ==
    (pc # "idle" /\ from_modules \cap to_modules = {}) =>
        /\ Len(chains) <= Cardinality(ExcludedPairs(excluded_imports))
        /\ ExcludedPairs(excluded_imports) \subseteq EdgesOf(imports)
        /\ Len(chains) <= Cardinality(EdgesOf(imports))
        /\ pc = "loop" => ENABLED PeelStep
        /\ pc = "done" => result = Range(chains) /\ IsFiniteSet(result)

\* C2: greedy peel.  The i-th chain appended is a shortest chain from
\* from_modules to to_modules with the imports of chains 1..i-1 forbidden;
\* every adjacent pair of an appended chain is in excluded_imports; no import
\* is used by two chains; and on the graph 1->2->3, 1->4->3 the result from 1
\* to 3 is exactly the two chains of three modules.
C2_GreedyPeel ==
    /\ \A i \in 1..Len(chains) :
          /\ IsShortestAllowedChain(chains[i], from_modules, to_modules,
                 excluded_modules, PairsOfChains(SubSeq(chains, 1, i - 1)))
          /\ TupleWindows(chains[i]) \subseteq ExcludedPairs(excluded_imports)
    /\ \A i \in 1..Len(chains), j \in 1..Len(chains) :
          i # j => TupleWindows(chains[i]) \cap TupleWindows(chains[j]) = {}
    /\ ( /\ pc = "done"
         /\ imports = AdjacencyOf({<<1, 2>>, <<2, 3>>, <<1, 4>>, <<4, 3>>})
         /\ call = [op |-> "find_shortest_chains", importer |-> 1,
                    imported |-> 3, as_packages |-> FALSE] )
       => result = {<<1, 2, 3>>, <<1, 4, 3>>}

\* C2 witness: the two-chain example has run to its end
C2_Witness ==
    /\ pc = "done"
    /\ imports = AdjacencyOf({<<1, 2>>, <<2, 3>>, <<1, 4>>, <<4, 3>>})
    /\ call = [op |-> "find_shortest_chains", importer |-> 1,
               imported |-> 3, as_packages |-> FALSE]
    /\ Len(chains) = 2

\* C3: a chain returned by find_shortest_chain_with_excluded_modules_and_imports
\* starts in from_modules, ends in to_modules, follows imports that are not
\* excluded, holds no excluded module, and no chain under the same constraints
\* has fewer imports; the result is None exactly when there is no such chain.
C3_ShortestChainContract ==
    last_search.called =>
        LET s == last_search
            forbidden == ExcludedPairs(s.exi)
        IN  IF s.chain = NoChain
            THEN \A n \in 1..Cardinality(ModuleToken) :
                     ~AllowedChainOfSize(n, s.from_set, s.to_set, s.exm, forbidden)
            ELSE IsShortestAllowedChain(s.chain, s.from_set, s.to_set, s.exm,
                                        forbidden)

\* C3 witness: a chain of three modules was returned with a module and an
\* import excluded
C3_Witness ==
    /\ last_search.called
    /\ Len(last_search.chain) = 3
    /\ last_search.exm # {}
    /\ ExcludedPairs(last_search.exi) # {}

(***************************************************************************)
(* The cache codec (caching.rs)                                            *)
(*                                                                         *)
(* The document is a sequence of JSON tokens.  A string token carries the  *)
(* string, a number token the integer.                                     *)
(***************************************************************************)
Token(k, str, num) == [k |-> k, s |-> str, n |-> num]

LBrace == Token("{", << >>, 0)
RBrace == Token("}", << >>, 0)
LBrack == Token("[", << >>, 0)
RBrack == Token("]", << >>, 0)
Comma == Token(",", << >>, 0)
Colon == Token(":", << >>, 0)
EndOfText == Token("eof", << >>, 0)
Str(x) == Token("str", x, 0)
Num(i) == Token("num", << >>, i)

Module(name) == [name |-> name]

DirectImport(importer, imported, line_number, line_contents) ==
    [importer |-> importer, imported |-> imported,
     line_number |-> line_number, line_contents |-> line_contents]

\* The orders in which a HashMap or HashSet may hand out its members
Orderings(S) ==
    {p \in [1..Cardinality(S) -> S] :
        \A i \in 1..Cardinality(S), j \in 1..Cardinality(S) : i # j => p[i] # p[j]}

RECURSIVE JoinWithCommas(_)
\* The token sequences of parts, with a comma between neighbours
JoinWithCommas(parts) ==
    IF Len(parts) = 0 THEN << >>
    ELSE IF Len(parts) = 1 THEN parts[1]
    ELSE parts[1] \o <<Comma>> \o JoinWithCommas(Tail(parts))

\* (import.imported, import.line_number, import.line_contents) as a JSON array
SerializeTriple(import) ==
    <<LBrack, Str(import.imported), Comma, Num(import.line_number), Comma,
      Str(import.line_contents), RBrack>>

\* (module.name, imports_vec) as a member of the JSON object
SerializeEntry(module, imports_vec) ==
    <<Str(module.name), Colon, LBrack>>
        \o JoinWithCommas([i \in 1..Len(imports_vec) |-> SerializeTriple(imports_vec[i])])
        \o <<RBrack>>

\* serialize_imports_by_module; key_order and vec_order are the iteration
\* orders of the map and of each set
serialize_imports_by_module(ibm, key_order, vec_order) ==
    <<LBrace>>
        \o JoinWithCommas([i \in 1..Len(key_order) |->
               SerializeEntry(key_order[i], vec_order[key_order[i]])])
        \o <<RBrace>>

\* The texts serialize_imports_by_module may produce for ibm
Serializations(ibm) ==
    {serialize_imports_by_module(ibm, ko, vo) :
        ko \in Orderings(DOMAIN ibm),
        vo \in {f \in [DOMAIN ibm -> UNION {Orderings(ibm[m]) : m \in DOMAIN ibm}] :
                   \A m \in DOMAIN ibm : f[m] \in Orderings(ibm[m])}}

\* The token at position i, the end of the text beyond the last
TokenAt(text, i) == IF i <= Len(text) THEN text[i] ELSE EndOfText

ParseFailed == [ok |-> FALSE, next |-> 0, items |-> << >>]

RECURSIVE ParseTriples(_, _, _)
\* (String, usize, String) elements from position i up to the closing bracket
ParseTriples(text, i, acc) ==
    IF /\ TokenAt(text, i) = LBrack
       /\ TokenAt(text, i + 1).k = "str"
       /\ TokenAt(text, i + 2) = Comma
       /\ TokenAt(text, i + 3).k = "num"
       /\ TokenAt(text, i + 3).n >= 0
       /\ TokenAt(text, i + 4) = Comma
       /\ TokenAt(text, i + 5).k = "str"
       /\ TokenAt(text, i + 6) = RBrack
    THEN LET triple == <<TokenAt(text, i + 1).s, TokenAt(text, i + 3).n,
                         TokenAt(text, i + 5).s>>
         IN  IF TokenAt(text, i + 7) = Comma
             THEN ParseTriples(text, i + 8, Append(acc, triple))
             ELSE IF TokenAt(text, i + 7) = RBrack
             THEN [ok |-> TRUE, next |-> i + 8, items |-> Append(acc, triple)]
             ELSE ParseFailed
    ELSE ParseFailed

\* Vec<(String, usize, String)> from position i
ParseVec(text, i) ==
    IF TokenAt(text, i) # LBrack THEN ParseFailed
    ELSE IF TokenAt(text, i + 1) = RBrack
    THEN [ok |-> TRUE, next |-> i + 2, items |-> << >>]
    ELSE ParseTriples(text, i + 1, << >>)

RECURSIVE ParseEntries(_, _, _)
\* The members of the object from position i up to the closing brace, which
\* must be the last token of the text
ParseEntries(text, i, acc) ==
    IF TokenAt(text, i).k = "str" /\ TokenAt(text, i + 1) = Colon
    THEN LET vec == ParseVec(text, i + 2)
             entries == Append(acc, [key |-> TokenAt(text, i).s, items |-> vec.items])
         IN  IF ~vec.ok THEN ParseFailed
             ELSE IF TokenAt(text, vec.next) = Comma
             THEN ParseEntries(text, vec.next + 1, entries)
             ELSE IF TokenAt(text, vec.next) = RBrace /\ vec.next = Len(text)
             THEN [ok |-> TRUE, next |-> vec.next + 1, items |-> entries]
             ELSE ParseFailed
    ELSE ParseFailed

\* serde_json::from_str::<HashMap<String, Vec<(String, usize, String)>>>:
\* the members in the order of the text, or a failure
from_str(text) ==
    IF TokenAt(text, 1) # LBrace THEN ParseFailed
    ELSE IF TokenAt(text, 2) = RBrace
    THEN IF Len(text) = 2 THEN [ok |-> TRUE, next |-> 3, items |-> << >>]
                           ELSE ParseFailed
    ELSE ParseEntries(text, 2, << >>)

\* The value a HashMap built from the members holds under key: the one of the
\* last member with that key
LastValueOf(entries, key) ==
    LET at == {i \in 1..Len(entries) : entries[i].key = key}
        last == CHOOSE i \in at : \A j \in at : j <= i
    IN  entries[last].items

CorruptCache(filename) == [kind |-> "CorruptCache", filename |-> filename]

Ok(value) == [kind |-> "Ok", value |-> value]

\* The import set of parse_json_to_map with importer taken from the import
ImportSet_importer_is_imported(module_name, items) ==
    {DirectImport(items[i][1], items[i][1], items[i][2], items[i][3]) :
        i \in 1..Len(items)}

\* imports.into_iter().map(|(imported, line_number, line_contents)|
\*     DirectImport { importer: module_name.clone(), .. }).collect()
ImportSet(module_name, items) ==
    {DirectImport(module_name, items[i][1], items[i][2], items[i][3]) :
        i \in 1..Len(items)}

RECURSIVE ParseEntriesKeepingPrefix(_, _, _)
\* ParseEntries, but what was read before a malformed part is kept
ParseEntriesKeepingPrefix(text, i, acc) ==
    LET kept == [ok |-> TRUE, next |-> i, items |-> acc]
    IN  IF TokenAt(text, i).k = "str" /\ TokenAt(text, i + 1) = Colon
        THEN LET vec == ParseVec(text, i + 2)
                 entries == Append(acc, [key |-> TokenAt(text, i).s,
                                         items |-> vec.items])
             IN  IF ~vec.ok THEN kept
                 ELSE IF TokenAt(text, vec.next) = Comma
                 THEN ParseEntriesKeepingPrefix(text, vec.next + 1, entries)
                 ELSE [ok |-> TRUE, next |-> vec.next + 1, items |-> entries]
        ELSE kept

\* A read that returns the members parsed before the malformed part
parse_json_to_map_keeping_prefix(json_str, filename) ==
    LET raw == IF TokenAt(json_str, 1) # LBrace THEN ParseFailed
               ELSE ParseEntriesKeepingPrefix(json_str, 2, << >>)
        keys == {raw.items[i].key : i \in 1..Len(raw.items)}
    IN  IF ~raw.ok THEN CorruptCache(filename)
        ELSE Ok([m \in {Module(k) : k \in keys} |->
                    ImportSet(m.name, LastValueOf(raw.items, m.name))])

\* parse_json_to_map
parse_json_to_map(json_str, filename) ==
    LET raw == from_str(json_str)
        keys == {raw.items[i].key : i \in 1..Len(raw.items)}
    IN  IF ~raw.ok THEN CorruptCache(filename)
        ELSE Ok([m \in {Module(k) : k \in keys} |->
                    ImportSet(m.name, LastValueOf(raw.items, m.name))])

(***************************************************************************)
(* The codec as a state machine: a dict is serialized for a write, the     *)
(* text may be damaged while it is stored, and it is read back             *)
(***************************************************************************)
MaxImports == 2

CodecNames == {<<"a">>, <<"b">>}

ImportedNames == {<<"x">>}

LineNumbers == {1, 2}

LineContents == {<<"import x">>}

FileNames == {<<"cache", Dot, "json">>, <<"other", Dot, "json">>}

AllDirectImports ==
    {DirectImport(i, m, l, c) :
        i \in CodecNames, m \in ImportedNames, l \in LineNumbers, c \in LineContents}

\* The number of DirectImports of a dict, over all its keys
TotalImports(ibm) ==
    Cardinality(UNION {{<<m, d>> : d \in ibm[m]} : m \in DOMAIN ibm})

\* The dicts a caller may hand to write_cache_data_map_file; the importer of a
\* DirectImport need not be the key it is stored under
ImportsByModuleValues ==
    {ibm \in UNION {[K -> SUBSET AllDirectImports] :
                       K \in SUBSET {Module(n) : n \in CodecNames}} :
        TotalImports(ibm) <= MaxImports}

\* Tokens that may take the place of a token of a damaged text
DamageTokens == {Comma, RBrace, LBrack, Num(-1), Str(<<"b">>)}

RemoveAt(text, i) == SubSeq(text, 1, i - 1) \o SubSeq(text, i + 1, Len(text))

\* What may be left of a stored text: a truncation, a token replaced or lost,
\* or text added behind the end
Damaged(text) ==
    {SubSeq(text, 1, k) : k \in 0..(Len(text) - 1)}
        \cup {[text EXCEPT ![i] = t] : i \in 1..Len(text), t \in DamageTokens}
        \cup {RemoveAt(text, i) : i \in 1..Len(text)}
        \cup {Append(text, t) : t \in DamageTokens}

NoResult == [kind |-> "none"]

CodecIdle ==
    /\ imports_by_module = << >>
    /\ cache_filename = << >>
    /\ file_contents = << >>
    /\ read_result = NoResult
    /\ codec_pc = "idle"

CodecInit ==
    /\ imports_by_module \in ImportsByModuleValues
    /\ cache_filename \in FileNames
    /\ file_contents = << >>
    /\ read_result = NoResult
    /\ codec_pc = "start"

\* write_cache_data_map_file up to the write: the dict becomes text
SerializeForWrite ==
    /\ codec_pc = "start"
    /\ file_contents' \in Serializations(imports_by_module)
    /\ codec_pc' = "written"
    /\ UNCHANGED <<imports_by_module, cache_filename, read_result>>
    /\ UNCHANGED notCodecVars

\* The stored text is damaged before it is read
DamageFile ==
    /\ codec_pc = "written"
    /\ file_contents' \in Damaged(file_contents)
    /\ codec_pc' = "damaged"
    /\ UNCHANGED <<imports_by_module, cache_filename, read_result>>
    /\ UNCHANGED notCodecVars

\* read_cache_data_map_file from the read on: the text becomes a dict, or the
\* call fails
ParseAfterRead ==
    /\ codec_pc \in {"written", "damaged"}
    /\ read_result' = parse_json_to_map(file_contents, cache_filename)
    /\ codec_pc' = IF codec_pc = "written" THEN "read" ELSE "read_damaged"
    /\ UNCHANGED <<imports_by_module, cache_filename, file_contents>>
    /\ UNCHANGED notCodecVars

CodecNext ==
    \/ SerializeForWrite
    \/ DamageFile
    \/ ParseAfterRead

(***************************************************************************)
(* The file-system variants (filesystem.rs) and the cache file handlers    *)
(* (caching.rs)                                                            *)
(***************************************************************************)
MaxWrites == 2

FileSystemObjects == {"RealBasicFileSystem", "FakeBasicFileSystem"}

NoFiles == << >>

\* HashMap::insert / a file created or replaced
PutFile(files, path, text) ==
    [p \in DOMAIN files \cup {path} |-> IF p = path THEN text ELSE files[p]]

\* get_file_system_boxed: a Box holding a clone of the object's inner value.
\* RealBasicFileSystem has no field; the clone of a FakeBasicFileSystem holds a
\* copy of its contents (Box<HashMap<String, String>>).
get_file_system_boxed(file_system) ==
    IF file_system = "RealBasicFileSystem"
    THEN [variant |-> "Real"]
    ELSE [variant |-> "Fake", contents |-> fake_contents]

\* FileSystem::write through a boxed handle: the handle and the host file
\* system afterwards.  An existing file is replaced.
FileSystemWrite(boxed, host, file_name, text) ==
    IF boxed.variant = "Real"
    THEN [boxed |-> boxed, host |-> PutFile(host, file_name, text)]
    ELSE [boxed |-> [boxed EXCEPT !.contents = PutFile(@, file_name, text)],
          host |-> host]

FileNotFound == [kind |-> "FileNotFoundError"]

\* FileSystem::read through a boxed handle.  Real: fs::read, then the decoding
\* (a cache document holds no coding line and is the UTF-8 serde_json wrote);
\* Fake: contents.get(file_name).
FileSystemRead(boxed, host, file_name) ==
    IF boxed.variant = "Real"
    THEN IF file_name \in DOMAIN host THEN Ok(host[file_name]) ELSE FileNotFound
    ELSE IF file_name \in DOMAIN boxed.contents
         THEN Ok(boxed.contents[file_name]) ELSE FileNotFound

\* The dicts written: those of the data model (importer = key)
WrittenValues ==
    {ibm \in ImportsByModuleValues :
        \A m \in DOMAIN ibm : \A d \in ibm[m] : d.importer = m.name}

\* A cache file left by an earlier run
StaleValue == [m \in {Module(<<"b">>)} |-> {}]

EarlierFiles ==
    {NoFiles} \cup {[p \in {f} |-> text] :
                       f \in FileNames, text \in Serializations(StaleValue)}

NothingWritten == [written |-> FALSE]

NoRead == [called |-> FALSE]

FsIdle ==
    /\ disk = NoFiles
    /\ fake_contents = NoFiles
    /\ last_written = << >>
    /\ cache_read = NoRead
    /\ n_writes = 0

FsInit ==
    /\ disk \in EarlierFiles
    /\ fake_contents \in EarlierFiles
    /\ last_written = [o \in FileSystemObjects |-> [f \in FileNames |-> NothingWritten]]
    /\ cache_read = NoRead
    /\ n_writes = 0

\* write_cache_data_map_file(filename, imports_by_module, file_system)
WriteCacheDataMapFile ==
    /\ n_writes < MaxWrites
    /\ \E file_system \in FileSystemObjects, filename \in FileNames,
          ibm \in WrittenValues :
          \E text \in Serializations(ibm) :
             LET file_system_boxed == get_file_system_boxed(file_system)
                 after == FileSystemWrite(file_system_boxed, disk, filename, text)
             IN  \* file_system_boxed is dropped at the return: the object
                 \* handed in keeps the inner value it was cloned from
                 /\ disk' = after.host
                 /\ fake_contents' = fake_contents
                 /\ last_written' =
                        [last_written EXCEPT ![file_system][filename] =
                            [written |-> TRUE, value |-> ibm]]
    /\ n_writes' = n_writes + 1
    /\ cache_read' = NoRead
    /\ UNCHANGED notFsVars

\* read_cache_data_map_file(filename, file_system)
ReadCacheDataMapFile ==
    /\ \E file_system \in FileSystemObjects, filename \in FileNames :
          LET file_system_boxed == get_file_system_boxed(file_system)
              contents == FileSystemRead(file_system_boxed, disk, filename)
          IN  cache_read' =
                  [called |-> TRUE, file_system |-> file_system,
                   filename |-> filename,
                   result |-> IF contents.kind = "Ok"
                              THEN parse_json_to_map(contents.value, filename)
                              ELSE contents]
    /\ UNCHANGED <<disk, fake_contents, last_written, n_writes>>
    /\ UNCHANGED notFsVars

FsNext ==
    \/ WriteCacheDataMapFile
    \/ ReadCacheDataMapFile

(***************************************************************************)
(* The import resolver (import_scanning.rs)                                *)
(***************************************************************************)
\* The index of the first "." of s, 0 when it has none
FirstDot(s) ==
    IF \E i \in 1..Len(s) : s[i] = Dot
    THEN CHOOSE i \in 1..Len(s) : s[i] = Dot /\ \A j \in 1..(i - 1) : s[j] # Dot
    ELSE 0

RECURSIVE Split(_)
\* s.split('.'): the components between the dots; one empty component for ""
Split(s) ==
    IF FirstDot(s) = 0 THEN <<s>>
    ELSE <<SubSeq(s, 1, FirstDot(s) - 1)>> \o Split(DropFirst(s, FirstDot(s)))

RECURSIVE Join(_)
\* parts.join(".")
Join(parts) ==
    IF Len(parts) = 0 THEN << >>
    ELSE IF Len(parts) = 1 THEN parts[1]
    ELSE parts[1] \o <<Dot>> \o Join(Tail(parts))

\* s.chars().take_while(|&c| c == '.').count()
count_leading_dots(s) ==
    Cardinality({i \in 1..Len(s) : \A j \in 1..i : s[j] = Dot})

Panic == [kind |-> "Panic"]

\* usize wraps at this modulus when overflow checks are off.  The model's
\* usize is narrower than the machine's: lengths and dot counts stay far below
\* either, and a wrapped value is beyond every length in both.
UsizeModulus == 2 ^ 30

\* a - b in usize: a panic with overflow checks (a debug build), wrapping
\* without them (a release build)
UsizeSub(a, b, overflow_checks) ==
    IF a >= b THEN Ok(a - b)
    ELSE IF overflow_checks THEN Panic
    ELSE Ok(UsizeModulus + a - b)

\* a + b in usize
UsizeAdd(a, b, overflow_checks) ==
    IF a + b < UsizeModulus THEN Ok(a + b)
    ELSE IF overflow_checks THEN Panic
    ELSE Ok(a + b - UsizeModulus)

\* parts[0..end]: a panic when end is beyond the length
SliceTo(parts, end) ==
    IF end <= Len(parts) THEN Ok(SubSeq(parts, 1, end)) ELSE Panic

\* parts[0..parts.len() - leading_dots_count + 1].join(".")
PackageBase(parts, leading_dots_count, overflow_checks) ==
    LET diff == UsizeSub(Len(parts), leading_dots_count, overflow_checks)
        end == IF diff.kind = "Ok" THEN UsizeAdd(diff.value, 1, overflow_checks)
                                   ELSE Panic
        slice == IF end.kind = "Ok" THEN SliceTo(parts, end.value) ELSE Panic
    IN  IF slice.kind = "Ok" THEN Ok(Join(slice.value)) ELSE Panic

\* The base of a module that is not a package, cut one component too late
ModuleBase_one_component_too_many(parts, leading_dots_count, overflow_checks) ==
    PackageBase(parts, leading_dots_count, overflow_checks)

\* parts[0..parts.len() - leading_dots_count].join(".")
ModuleBase(parts, leading_dots_count, overflow_checks) ==
    LET end == UsizeSub(Len(parts), leading_dots_count, overflow_checks)
        slice == IF end.kind = "Ok" THEN SliceTo(parts, end.value) ELSE Panic
    IN  IF slice.kind = "Ok" THEN Ok(Join(slice.value)) ELSE Panic

\* _get_absolute_imported_object_name: Ok(name), or a panic
get_absolute_imported_object_name(module, is_package, imported_object_name, overflow_checks) ==
    LET leading_dots_count == count_leading_dots(imported_object_name)
        parts == Split(module.name)
        imported_object_name_base ==
            IF is_package
            THEN IF leading_dots_count = 1 THEN Ok(module.name)
                 ELSE PackageBase(parts, leading_dots_count, overflow_checks)
            ELSE ModuleBase(parts, leading_dots_count, overflow_checks)
    IN  IF leading_dots_count = 0 THEN Ok(imported_object_name)
        ELSE IF imported_object_name_base.kind # "Ok" THEN Panic
        ELSE Ok(imported_object_name_base.value \o <<Dot>>
                    \o DropFirst(imported_object_name, leading_dots_count))

(***************************************************************************)
(* The resolver applied to the importing modules and import names a source *)
(* file may hold                                                           *)
(***************************************************************************)
MaxDots == 4

ImportingModules ==
    {Module(<<"pkg">>), Module(<<"pkg", Dot, "sub">>),
     Module(<<"pkg", Dot, "sub", Dot, "leaf">>)}

\* What follows the leading dots of an import name
ImportNameTails == {<<"helper">>, <<"child", Dot, "x">>}

RECURSIVE Dots(_)
Dots(k) == IF k = 0 THEN << >> ELSE <<Dot>> \o Dots(k - 1)

ImportNames == {Dots(k) \o tail : k \in 0..MaxDots, tail \in ImportNameTails}

ResolveIdle ==
    /\ resolve_args = << >>
    /\ resolve_out = NoResult
    /\ resolve_pc = "idle"

ResolveInit ==
    /\ resolve_args \in [module : ImportingModules, is_package : BOOLEAN,
                         imported_object_name : ImportNames,
                         overflow_checks : BOOLEAN]
    /\ resolve_out = NoResult
    /\ resolve_pc = "start"

\* _get_absolute_imported_object_name(module, is_package, imported_object.name)
ResolveImportedObjectName ==
    /\ resolve_pc = "start"
    /\ resolve_out' = get_absolute_imported_object_name(
                          resolve_args.module, resolve_args.is_package,
                          resolve_args.imported_object_name,
                          resolve_args.overflow_checks)
    /\ resolve_pc' = "done"
    /\ UNCHANGED resolve_args
    /\ UNCHANGED notResolveVars

ResolveNext == ResolveImportedObjectName

(***************************************************************************)
(* The file-system operations the scanner uses (filesystem.rs).  A path is *)
(* a sequence of tokens with the separator and the suffix .py as tokens of *)
(* their own; a source tree maps the path of each regular file to whether  *)
(* it can be read and decoded and to what the parser makes of its text.    *)
(***************************************************************************)
Sep == "/"

DotPy == ".py"

InitPy == <<"__init__", DotPy>>

RECURSIVE TrimEndSep(_)
\* c.trim_end_matches(&sep)
TrimEndSep(c) ==
    IF Len(c) > 0 /\ Last(c) = Sep THEN TrimEndSep(SubSeq(c, 1, Len(c) - 1)) ELSE c

RECURSIVE JoinWithSep(_)
JoinWithSep(components) ==
    IF Len(components) = 0 THEN << >>
    ELSE IF Len(components) = 1 THEN components[1]
    ELSE components[1] \o <<Sep>> \o JoinWithSep(Tail(components))

\* PathBuf::push: an absolute component replaces the path, any other is
\* appended behind a separator
PathPush(path, component) ==
    IF Len(component) > 0 /\ component[1] = Sep THEN component
    ELSE IF Len(path) = 0 \/ Last(path) = Sep THEN path \o component
    ELSE path \o <<Sep>> \o component

RECURSIVE PathPushAll(_, _)
PathPushAll(path, components) ==
    IF Len(components) = 0 THEN path
    ELSE PathPushAll(PathPush(path, components[1]), Tail(components))

\* FileSystem::join
FileSystemJoin(file_system, components) ==
    IF file_system.variant = "Real"
    THEN PathPushAll(<< >>, components)
    ELSE JoinWithSep([i \in 1..Len(components) |-> TrimEndSep(components[i])])

\* The index of the last separator of a path, 0 when it has none
LastSep(path) ==
    IF \E i \in 1..Len(path) : path[i] = Sep
    THEN CHOOSE i \in 1..Len(path) :
             path[i] = Sep /\ \A j \in (i + 1)..Len(path) : path[j] # Sep
    ELSE 0

\* Path::parent and Path::file_name of a path without a trailing separator
PathParent(path) ==
    IF LastSep(path) = 1 THEN <<Sep>> ELSE SubSeq(path, 1, LastSep(path) - 1)

PathFileName(path) == DropFirst(path, LastSep(path))

\* FileSystem::split: <<head, tail>>
FileSystemSplit(file_system, file_name) ==
    IF file_system.variant = "Real"
    THEN <<PathParent(TrimEndSep(file_name)), PathFileName(TrimEndSep(file_name))>>
    ELSE IF Len(file_name) > 0 /\ Last(file_name) = Sep
    THEN <<SubSeq(file_name, 1, Len(file_name) - 1), << >>>>
    ELSE <<PathParent(file_name), PathFileName(file_name)>>

\* FileSystem::exists: Path::is_file / contents.contains_key
FileSystemExists(file_system, file_name) == file_name \in DOMAIN file_system.files

ReadError == [kind |-> "Err"]

\* FileSystem::read of a source file: the text, or an error for a file that
\* is not there or that cannot be read or decoded
FileSystemReadSource(file_system, file_name) ==
    IF file_name \notin DOMAIN file_system.files THEN ReadError
    ELSE IF file_system.variant = "Real" /\ ~file_system.files[file_name].readable
    THEN ReadError
    ELSE Ok(file_system.files[file_name].code)

(***************************************************************************)
(* The scanner (import_scanning.rs)                                        *)
(***************************************************************************)
\* get_modules_from_found_packages
get_modules_from_found_packages(found_packages) ==
    UNION {{module_file.module : module_file \in package.module_files} :
              package \in found_packages}

\* _lookup_found_package_for_module: the first package, in the iteration order
\* of the HashSet, that lists the module; a panic when none does
lookup_found_package_for_module(module, found_packages) ==
    LET owners == {found_package \in found_packages :
                      \E module_file \in found_package.module_files :
                          module_file.module = module}
    IN  IF owners = {} THEN {Panic} ELSE {Ok(found_package) : found_package \in owners}

\* A file selection that tries the __init__.py of the directory first
determine_module_filename_init_first(module, found_package, file_system) ==
    LET leaf_components == DropFirst(Split(module.name), Len(Split(found_package.name)))
        filename_root ==
            FileSystemJoin(file_system, <<found_package.directory>> \o leaf_components)
        normal_module_path == filename_root \o <<DotPy>>
        init_module_path == FileSystemJoin(file_system, <<filename_root, InitPy>>)
    IN  IF Len(Split(found_package.name)) > Len(Split(module.name)) THEN Panic
        ELSE IF FileSystemExists(file_system, init_module_path)
        THEN Ok(init_module_path)
        ELSE IF FileSystemExists(file_system, normal_module_path)
        THEN Ok(normal_module_path)
        ELSE [kind |-> "Err"]

\* _determine_module_filename: Ok(filename), Err(NotFound), or the panic of
\* the slice module_components[top_level_components.len()..]
determine_module_filename(module, found_package, file_system) ==
    LET top_level_components == Split(found_package.name)
        module_components == Split(module.name)
        leaf_components == DropFirst(module_components, Len(top_level_components))
        filename_root ==
            FileSystemJoin(file_system, <<found_package.directory>> \o leaf_components)
        normal_module_path == filename_root \o <<DotPy>>
        init_module_path == FileSystemJoin(file_system, <<filename_root, InitPy>>)
    IN  IF Len(top_level_components) > Len(module_components) THEN Panic
        ELSE IF FileSystemExists(file_system, normal_module_path)
        THEN Ok(normal_module_path)
        ELSE IF FileSystemExists(file_system, init_module_path)
        THEN Ok(init_module_path)
        ELSE [kind |-> "Err"]

\* _module_is_package
module_is_package(module_filename, file_system) ==
    FileSystemSplit(file_system, module_filename)[2] = InitPy

Some(value) == [kind |-> "Some", value |-> value]

None == [kind |-> "None"]

\* The index of the last "." of s, 0 when it has none
LastDot(s) ==
    IF \E i \in 1..Len(s) : s[i] = Dot
    THEN CHOOSE i \in 1..Len(s) :
             s[i] = Dot /\ \A j \in (i + 1)..Len(s) : s[j] # Dot
    ELSE 0

RECURSIVE get_internal_module_nearest_ancestor(_, _)
\* A classification that walks up to the nearest ancestor that is internal
get_internal_module_nearest_ancestor(imported_object_name, all_modules) ==
    IF Module(imported_object_name) \in all_modules
    THEN Some(Module(imported_object_name))
    ELSE IF LastDot(imported_object_name) = 0 THEN None
    ELSE get_internal_module_nearest_ancestor(
             SubSeq(imported_object_name, 1, LastDot(imported_object_name) - 1),
             all_modules)

\* _get_internal_module
get_internal_module(imported_object_name, all_modules) ==
    LET candidate_module == Module(imported_object_name)
        parent == Module(SubSeq(imported_object_name, 1,
                                LastDot(imported_object_name) - 1))
    IN  IF candidate_module \in all_modules THEN Some(candidate_module)
        ELSE IF LastDot(imported_object_name) # 0 /\ parent \in all_modules
        THEN Some(parent)
        ELSE None

RECURSIVE NamespacePortion_internal_component(_, _, _)
\* The loop with the diverging component of the found package pushed last
NamespacePortion_internal_component(external, internal, external_namespace_components) ==
    IF Len(external) = 0 \/ Len(internal) = 0 THEN Panic
    ELSE IF external[1] = internal[1]
    THEN NamespacePortion_internal_component(Tail(external), Tail(internal),
             Append(external_namespace_components, external[1]))
    ELSE Ok(Join(Append(external_namespace_components, internal[1])))

RECURSIVE NamespacePortion(_, _, _)
\* The while loop of _distill_external_module and the push behind it; indexing
\* an emptied vector panics
NamespacePortion(external, internal, external_namespace_components) ==
    IF Len(external) = 0 \/ Len(internal) = 0 THEN Panic
    ELSE IF external[1] = internal[1]
    THEN NamespacePortion(Tail(external), Tail(internal),
                          Append(external_namespace_components, external[1]))
    ELSE Ok(Join(Append(external_namespace_components, external[1])))

\* A distillation without the check for namespace parents
distill_external_module_keeping_namespace_parents(module_name, found_packages) ==
    LET candidate_portions ==
            {NamespacePortion(Split(module_name), Split(found_package.name), << >>) :
                found_package \in {package \in found_packages :
                    module_is_descendant(package.name, Split(module_name)[1])}}
    IN  IF Panic \in candidate_portions THEN Panic
        ELSE IF candidate_portions # {}
        THEN Some((CHOOSE portion \in candidate_portions :
                      \A other \in candidate_portions :
                          Len(Split(other.value)) <= Len(Split(portion.value))).value)
        ELSE Some(Split(module_name)[1])

\* _distill_external_module: Some(name), None, or a panic.  The candidate
\* portions are prefixes of module_name, so the deepest one is unique.
distill_external_module(module_name, found_packages) ==
    LET module_root == Split(module_name)[1]
        candidate_portions ==
            {NamespacePortion(Split(module_name), Split(found_package.name), << >>) :
                found_package \in {package \in found_packages :
                                      module_is_descendant(package.name, module_root)}}
        deepest_candidate_portion ==
            CHOOSE portion \in candidate_portions :
                \A other \in candidate_portions :
                    Len(Split(other.value)) <= Len(Split(portion.value))
    IN  IF \E package \in found_packages :
               module_is_descendant(package.name, module_name)
        THEN None
        ELSE IF Panic \in candidate_portions THEN Panic
        ELSE IF candidate_portions # {} THEN Some(deepest_candidate_portion.value)
        ELSE Some(module_root)

\* A DirectImport whose importer is the module imported
ScannedImport_importer_is_imported(module, imported, imported_object) ==
    DirectImport(imported, imported, imported_object.line_number,
                 imported_object.line_contents)

\* DirectImport { importer: module.name.to_string(), imported, line_number,
\* line_contents }
ScannedImport(module, imported, imported_object) ==
    DirectImport(module.name, imported, imported_object.line_number,
                 imported_object.line_contents)

\* The loop body with include_external_packages taken as true
ImportsOfObject_flag_ignored(module, is_package, imported_object, args) ==
    LET imported_object_name ==
            get_absolute_imported_object_name(module, is_package,
                imported_object.name, args.overflow_checks)
        internal ==
            get_internal_module(imported_object_name.value,
                get_modules_from_found_packages(args.found_packages))
        external == distill_external_module(imported_object_name.value,
                                            args.found_packages)
    IN  IF args.exclude_type_checking_imports /\ imported_object.typechecking_only
        THEN Ok({})
        ELSE IF imported_object_name.kind # "Ok" THEN Panic
        ELSE IF internal.kind = "Some"
        THEN Ok({ScannedImport(module, internal.value.name, imported_object)})
        ELSE IF external.kind = "Panic" THEN Panic
        ELSE IF external.kind = "None" THEN Ok({})
        ELSE Ok({ScannedImport(module, external.value, imported_object)})

\* The body of the loop over imported_objects for one of them: Ok(the set of
\* DirectImports to insert), or a panic
ImportsOfObject(module, is_package, imported_object, args) ==
    LET imported_object_name ==
            get_absolute_imported_object_name(module, is_package,
                imported_object.name, args.overflow_checks)
        internal ==
            get_internal_module(imported_object_name.value,
                get_modules_from_found_packages(args.found_packages))
        external == distill_external_module(imported_object_name.value,
                                            args.found_packages)
    IN  IF args.exclude_type_checking_imports /\ imported_object.typechecking_only
        THEN Ok({})
        ELSE IF imported_object_name.kind # "Ok" THEN Panic
        ELSE IF internal.kind = "Some"
        THEN Ok({ScannedImport(module, internal.value.name, imported_object)})
        ELSE IF ~args.include_external_packages THEN Ok({})
        ELSE IF external.kind = "Panic" THEN Panic
        ELSE IF external.kind = "None" THEN Ok({})
        ELSE Ok({ScannedImport(module, external.value, imported_object)})

RECURSIVE ImportsOfObjects(_, _, _, _, _)
\* The loop over imported_objects, from what is in imports so far
ImportsOfObjects(imports_so_far, module, is_package, imported_objects, args) ==
    IF Len(imported_objects) = 0 THEN Ok(imports_so_far)
    ELSE LET inserted == ImportsOfObject(module, is_package,
                                         imported_objects[1], args)
         IN  IF inserted.kind # "Ok" THEN Panic
             ELSE ImportsOfObjects(imports_so_far \cup inserted.value, module,
                                   is_package, Tail(imported_objects), args)

\* import_parsing::parse_imports_from_code: the imported objects of the text,
\* or ParseError
ParseError(filename) == [kind |-> "ParseError", filename |-> filename]

SyntaxError == [parsed |-> FALSE, imported_objects |-> << >>]

parse_imports_from_code(module_contents, module_filename) ==
    IF module_contents.parsed THEN Ok(module_contents.imported_objects)
    ELSE ParseError(module_filename)

\* scan_for_imports_no_py_single_module: Ok(imports), the ParseError handed on
\* by ?, or a panic (of the lookup, of either unwrap, of the resolution or of
\* the distillation)
scan_for_imports_no_py_single_module(module, found_package_for_module, args) ==
    LET module_filename ==
            IF found_package_for_module.kind = "Ok"
            THEN determine_module_filename(module, found_package_for_module.value,
                                           args.file_system)
            ELSE Panic
        module_contents ==
            IF module_filename.kind = "Ok"
            THEN FileSystemReadSource(args.file_system, module_filename.value)
            ELSE Panic
        imported_objects ==
            IF module_contents.kind = "Ok"
            THEN parse_imports_from_code(module_contents.value, module_filename.value)
            ELSE Panic
    IN  IF found_package_for_module.kind # "Ok" THEN Panic
        ELSE IF module_filename.kind # "Ok" THEN Panic
        ELSE IF module_contents.kind # "Ok" THEN Panic
        ELSE IF imported_objects.kind # "Ok" THEN imported_objects
        ELSE ImportsOfObjects({}, module,
                 module_is_package(module_filename.value, args.file_system),
                 imported_objects.value, args)

(***************************************************************************)
(* The scanner as a state machine: scan_for_imports_no_py takes the        *)
(* modules in the iteration order of the HashSet, one per step             *)
(***************************************************************************)
MaxImportedObjects == 1

PkgDirectory == <<Sep, "src", Sep, "pkg">>

NsBlueDirectory == <<Sep, "src", Sep, "ns", Sep, "blue">>

ModuleFile(module, filename) == [module |-> module, filename |-> filename]

FoundPackage(name, directory, module_files) ==
    [name |-> name, directory |-> directory, module_files |-> module_files]

\* The package pkg with its modules pkg, pkg.sub and pkg.helper
Pkg ==
    FoundPackage(<<"pkg">>, PkgDirectory,
        {ModuleFile(Module(<<"pkg">>), PkgDirectory \o <<Sep>> \o InitPy),
         ModuleFile(Module(<<"pkg", Dot, "sub">>),
                    PkgDirectory \o <<Sep, "sub", DotPy>>),
         ModuleFile(Module(<<"pkg", Dot, "helper">>),
                    PkgDirectory \o <<Sep, "helper", DotPy>>)})

\* A portion ns.blue of the namespace ns
NsBlue ==
    FoundPackage(<<"ns", Dot, "blue">>, NsBlueDirectory,
        {ModuleFile(Module(<<"ns", Dot, "blue">>),
                    NsBlueDirectory \o <<Sep>> \o InitPy)})

FoundPackageSets == {{Pkg}, {Pkg, NsBlue}}

\* The modules a caller may ask for; stray belongs to no package
ScannedModules ==
    {Module(<<"pkg">>), Module(<<"pkg", Dot, "sub">>), Module(<<"stray">>)}

ImportedObjectNames ==
    {<<Dot, "helper">>, <<Dot, Dot, "helper">>, <<Dot, Dot, Dot, "helper">>,
     <<"pkg", Dot, "helper", Dot, "f">>, <<"os", Dot, "path">>,
     <<"ns", Dot, "green", Dot, "x">>}

ImportedObjects ==
    [name : ImportedObjectNames, line_number : {1},
     line_contents : {<<"import">>}, typechecking_only : BOOLEAN]

\* What the parser may make of the text of a source file
SourceTexts ==
    {SyntaxError}
        \cup {[parsed |-> TRUE, imported_objects |-> objects] :
                 objects \in UNION {[1..n -> ImportedObjects] :
                                       n \in 0..MaxImportedObjects}}

NoImports == [parsed |-> TRUE, imported_objects |-> << >>]

PkgInitPath == PkgDirectory \o <<Sep>> \o InitPy

SubPyPath == PkgDirectory \o <<Sep, "sub", DotPy>>

SubInitPath == PkgDirectory \o <<Sep, "sub", Sep>> \o InitPy

\* A file that is not there, a file whose bytes cannot be read or decoded (no
\* text is made of them), or a file with a text
SourceFiles ==
    {[present |-> FALSE, readable |-> FALSE, code |-> SyntaxError],
     [present |-> TRUE, readable |-> FALSE, code |-> SyntaxError]}
        \cup {[present |-> TRUE, readable |-> TRUE, code |-> text] :
                 text \in SourceTexts}

\* The tree with the files that are there
TreeOf(pkg_init, sub_py, sub_init) ==
    LET file == [path \in {PkgInitPath, SubPyPath, SubInitPath} |->
                    IF path = PkgInitPath THEN pkg_init
                    ELSE IF path = SubPyPath THEN sub_py ELSE sub_init]
    IN  [path \in {q \in DOMAIN file : file[q].present} |->
            [readable |-> file[path].readable, code |-> file[path].code]]

\* The number of imported objects of the file at a path of a tree
ImportedObjectsAt(tree, path) ==
    IF path \in DOMAIN tree THEN Len(tree[path].code.imported_objects) ELSE 0

\* The source trees: the files of pkg and pkg.sub, each there or not, with at
\* most MaxImportedObjects imported objects in all; pkg.sub may be a module, a
\* package, or both at once
SourceTrees ==
    {tree \in {TreeOf(pkg_init, sub_py, sub_init) :
                  pkg_init \in SourceFiles, sub_py \in SourceFiles,
                  sub_init \in {file \in SourceFiles :
                                   file.present => file.readable /\ file.code = NoImports}} :
        ImportedObjectsAt(tree, PkgInitPath) + ImportedObjectsAt(tree, SubPyPath)
            <= MaxImportedObjects}

\* The file systems handed to the scanner; every file of a Fake one has text
ScanFileSystems ==
    {file_system \in [variant : {"Real", "Fake"}, files : SourceTrees] :
        file_system.variant = "Fake" =>
            \A path \in DOMAIN file_system.files : file_system.files[path].readable}

ScanIdle ==
    /\ scan_args = << >>
    /\ scan_remaining = {}
    /\ scanned = << >>
    /\ scan_result = NoResult
    /\ scan_pc = "idle"

ScanInit ==
    /\ scan_args \in [file_system : ScanFileSystems,
                      found_packages : FoundPackageSets,
                      include_external_packages : BOOLEAN,
                      modules : SUBSET ScannedModules,
                      exclude_type_checking_imports : BOOLEAN,
                      overflow_checks : BOOLEAN]
    /\ scan_remaining = scan_args.modules
    /\ scanned = << >>
    /\ scan_result = NoResult
    /\ scan_pc = "loop"

\* One iteration of the loop of scan_for_imports_no_py: the module is scanned
\* and inserted, or its error ends the call (?), or its panic unwinds it
ScanModule ==
    /\ scan_pc = "loop"
    /\ \E module \in scan_remaining :
       \E found_package_for_module \in
              lookup_found_package_for_module(module, scan_args.found_packages) :
          LET imports_for_module ==
                  scan_for_imports_no_py_single_module(
                      module, found_package_for_module, scan_args)
          IN  IF imports_for_module.kind = "Ok"
              THEN /\ scanned' = PutFile(scanned, module, imports_for_module.value)
                   /\ scan_remaining' = scan_remaining \ {module}
                   /\ UNCHANGED <<scan_result, scan_pc>>
              ELSE /\ scan_result' = imports_for_module
                   /\ scan_pc' = "done"
                   /\ UNCHANGED <<scanned, scan_remaining>>
    /\ UNCHANGED scan_args
    /\ UNCHANGED notScanVars

\* Ok(imports_by_module) behind the loop
ScanReturn ==
    /\ scan_pc = "loop"
    /\ scan_remaining = {}
    /\ scan_result' = Ok(scanned)
    /\ scan_pc' = "done"
    /\ UNCHANGED <<scan_args, scan_remaining, scanned>>
    /\ UNCHANGED notScanVars

\* The caller hands the dict the scanner returned to
\* write_cache_data_map_file; the arguments and locals of the scan are gone
CacheScannedImports ==
    /\ scan_pc = "done"
    /\ scan_result.kind = "Ok"
    /\ codec_pc = "idle"
    /\ imports_by_module' = scan_result.value
    /\ cache_filename' \in FileNames
    /\ codec_pc' = "start"
    /\ scan_args' = << >>
    /\ scan_remaining' = {}
    /\ scanned' = << >>
    /\ scan_pc' = "cached"
    /\ UNCHANGED scan_result
    /\ UNCHANGED <<file_contents, read_result>>
    /\ UNCHANGED <<graphVars, fsVars, resolveVars, fnVars>>

ScanNext ==
    \/ ScanModule
    \/ ScanReturn
    \/ CacheScannedImports

(***************************************************************************)
(* The functions of the scanner and of the graph called on their own, on   *)
(* arguments drawn from small sets                                         *)
(***************************************************************************)
FnIdle ==
    /\ fn_args = << >>
    /\ fn_out = NoResult
    /\ fn_pc = "idle"

\* Absolute names an import may resolve to, and names of internal modules
AbsoluteNames ==
    {<<"pkg">>, <<"pkg", Dot, "child">>, <<"pkg", Dot, "child", Dot, "x">>,
     <<"pkg", Dot, "child", Dot, "x", Dot, "y">>, <<"os">>, <<"os", Dot, "path">>,
     <<"pkgx">>, <<"pkgx", Dot, "child">>}

InternalModuleSets ==
    SUBSET {Module(name) : name \in AbsoluteNames \ {<<"os">>, <<"os", Dot, "path">>}}

ClassifyInit ==
    /\ fn_args \in [op : {"_get_internal_module"},
                    imported_object_name : AbsoluteNames,
                    all_modules : InternalModuleSets]
    /\ fn_out = NoResult
    /\ fn_pc = "start"

\* _get_internal_module(&imported_object_name, all_modules)
ClassifyImportedObjectName ==
    /\ fn_pc = "start"
    /\ fn_args.op = "_get_internal_module"
    /\ fn_out' = get_internal_module(fn_args.imported_object_name,
                                     fn_args.all_modules)
    /\ fn_pc' = "done"
    /\ UNCHANGED fn_args
    /\ UNCHANGED notFnVars

ClassifyNext == ClassifyImportedObjectName

\* The found packages of the calls: at most MaxFoundPackages of these
MaxFoundPackages == 2

\* The directory of a package or the stem of a module file: src/ and the
\* components of the name
PathOfName(name) ==
    <<Sep, "src", Sep>> \o [i \in 1..Len(name) |-> IF name[i] = Dot THEN Sep ELSE name[i]]

\* A found package with the modules named; the first is the package itself
PackageOf(name, module_names) ==
    FoundPackage(name, PathOfName(name),
        {ModuleFile(Module(module_name),
                    IF module_name = name
                    THEN PathOfName(name) \o <<Sep>> \o InitPy
                    ELSE PathOfName(module_name) \o <<DotPy>>) :
            module_name \in module_names})

PkgWithChild == PackageOf(<<"pkg">>, {<<"pkg">>, <<"pkg", Dot, "child">>})

MylibSub == PackageOf(<<"mylib", Dot, "sub">>, {<<"mylib", Dot, "sub">>})

FooBlue == PackageOf(<<"foo", Dot, "blue">>, {<<"foo", Dot, "blue">>})

FooBlueBeta ==
    PackageOf(<<"foo", Dot, "blue", Dot, "beta">>, {<<"foo", Dot, "blue", Dot, "beta">>})

FooGreen == PackageOf(<<"foo", Dot, "green">>, {<<"foo", Dot, "green">>})

FoundPackageCandidates == {Pkg, PkgWithChild, MylibSub, FooBlue, FooBlueBeta, FooGreen}

FoundPackageChoices ==
    {found_packages \in SUBSET FoundPackageCandidates :
        Cardinality(found_packages) \in 1..MaxFoundPackages}

\* The names a parsed import may carry
ParsedImportNames ==
    {<<Dot, "child", Dot, "x">>, <<Dot, Dot, Dot, "helper">>, <<"os", Dot, "path">>,
     <<"pkg", Dot, "missing", Dot, "thing">>, <<"mylib">>,
     <<"mylib", Dot, "sub", Dot, "f">>,
     <<"foo", Dot, "blue", Dot, "alpha", Dot, "one">>}

ImportInit ==
    /\ fn_args \in [op : {"imported_object"},
                    module : {Module(<<"pkg">>), Module(<<"pkg", Dot, "sub">>)},
                    is_package : BOOLEAN,
                    imported_object :
                        [name : ParsedImportNames, line_number : {1},
                         line_contents : {<<"import">>},
                         typechecking_only : BOOLEAN],
                    found_packages : FoundPackageChoices,
                    include_external_packages : BOOLEAN,
                    exclude_type_checking_imports : BOOLEAN,
                    overflow_checks : BOOLEAN]
    /\ fn_out = NoResult
    /\ fn_pc = "start"

\* One iteration of the loop over imported_objects of
\* scan_for_imports_no_py_single_module: what is inserted into imports, with
\* the absolute name and the two classifications it went through
ScanImportedObject ==
    /\ fn_pc = "start"
    /\ fn_args.op = "imported_object"
    /\ LET absolute ==
               get_absolute_imported_object_name(fn_args.module,
                   fn_args.is_package, fn_args.imported_object.name,
                   fn_args.overflow_checks)
       IN  fn_out' =
               [kind |-> "imported_object",
                skipped |-> /\ fn_args.exclude_type_checking_imports
                            /\ fn_args.imported_object.typechecking_only,
                absolute |-> absolute,
                internal |->
                    IF absolute.kind = "Ok"
                    THEN get_internal_module(absolute.value,
                             get_modules_from_found_packages(fn_args.found_packages))
                    ELSE Panic,
                external |->
                    IF absolute.kind = "Ok"
                    THEN distill_external_module(absolute.value,
                                                 fn_args.found_packages)
                    ELSE Panic,
                inserted |-> ImportsOfObject(fn_args.module, fn_args.is_package,
                                             fn_args.imported_object, fn_args)]
    /\ fn_pc' = "done"
    /\ UNCHANGED fn_args
    /\ UNCHANGED notFnVars

ImportNext == ScanImportedObject

\* The external names handed to the distillation
ExternalNames ==
    {<<"os", Dot, "path">>, <<"mylib">>, <<"mylib", Dot, "sub", Dot, "f">>,
     <<"pkg", Dot, "missing", Dot, "thing">>, <<"foo">>, <<"foo", Dot, "bar">>,
     <<"foo", Dot, "green", Dot, "z">>,
     <<"foo", Dot, "blue", Dot, "alpha", Dot, "one">>}

DistillInit ==
    /\ fn_args \in [op : {"_distill_external_module"},
                    module_name : ExternalNames,
                    found_packages : FoundPackageChoices]
    /\ fn_out = NoResult
    /\ fn_pc = "start"

\* _distill_external_module(&imported_object_name, found_packages)
DistillExternalModule ==
    /\ fn_pc = "start"
    /\ fn_args.op = "_distill_external_module"
    /\ fn_out' = [kind |-> "distilled",
                  first |-> distill_external_module(fn_args.module_name,
                                                    fn_args.found_packages),
                  again |-> NoResult]
    /\ fn_pc' = "distilled"
    /\ UNCHANGED fn_args
    /\ UNCHANGED notFnVars

\* _distill_external_module called on the name it returned, with the same
\* found packages
DistillDistilledName ==
    /\ fn_pc = "distilled"
    /\ fn_out.first.kind = "Some"
    /\ fn_out' = [fn_out EXCEPT !.again =
                      distill_external_module(fn_out.first.value,
                                              fn_args.found_packages)]
    /\ fn_pc' = "again"
    /\ UNCHANGED fn_args
    /\ UNCHANGED notFnVars

DistillNext == DistillExternalModule \/ DistillDistilledName

\* reverse_imports, kept in lock-step with imports
reverse_imports ==
    [v \in ModuleToken |-> {u \in ModuleToken : v \in imports[u]}]

\* The traversal with a visited set: seen and all that is reachable from it
RECURSIVE ReachClosure(_, _)
ReachClosure(adjacency, seen) ==
    LET next == seen \cup UNION {adjacency[t] : t \in seen}
    IN  IF next = seen THEN seen ELSE ReachClosure(adjacency, next)

\* The tokens at the end of a path of one edge or more from seed
ReachableFrom(adjacency, seed) == ReachClosure(adjacency, adjacency[seed])

\* find_reach: the tokens reachable from any token of from_set, the seeds
\* excluded unless reachable from another seed through a non-trivial path
find_reach(adjacency, from_set) ==
    {t \in UNION {ReachableFrom(adjacency, seed) : seed \in from_set} :
        \/ t \notin from_set
        \/ \E seed \in from_set \ {t} : t \in ReachableFrom(adjacency, seed)}

\* Graph::find_downstream_modules; seeds is its local from_modules
find_downstream_modules(module, as_package) ==
    LET seeds == IF as_package THEN with_descendants({module}) ELSE {module}
    IN  find_reach(reverse_imports, seeds)

\* An upstream query whose seeds are the descendants without the module
find_upstream_modules_descendants_only(module, as_package) ==
    LET seeds == IF as_package THEN Descendants(module) ELSE {module}
    IN  find_reach(imports, seeds)

\* Graph::find_upstream_modules
find_upstream_modules(module, as_package) ==
    LET seeds == IF as_package THEN with_descendants({module}) ELSE {module}
    IN  find_reach(imports, seeds)

\* The reach queries put to a graph: find_reach from a seed set A and from a
\* seed set B that holds A, and the two module queries
ReachQueries ==
    {query \in [op : {"find_reach"}, A : SUBSET ModuleToken, B : SUBSET ModuleToken] :
        query.A \subseteq query.B}
    \cup [op : {"find_upstream_modules", "find_downstream_modules"},
          module : ModuleToken]

ReachInit ==
    /\ \E E \in SUBSET AllEdges :
          /\ Cardinality(E) <= MaxEdges
          /\ imports = AdjacencyOf(E)
    /\ GraphIdle
    /\ fn_args \in ReachQueries
    /\ fn_out = NoResult
    /\ fn_pc = "start"

\* find_reach(&self.imports, A) and find_reach(&self.imports, B)
FindReach ==
    /\ fn_pc = "start"
    /\ fn_args.op = "find_reach"
    /\ fn_out' = [kind |-> "reach",
                  of_A |-> find_reach(imports, fn_args.A),
                  of_B |-> find_reach(imports, fn_args.B)]
    /\ fn_pc' = "done"
    /\ UNCHANGED fn_args
    /\ UNCHANGED notFnVars

\* find_upstream_modules(module, false) and find_upstream_modules(module, true)
FindUpstreamModules ==
    /\ fn_pc = "start"
    /\ fn_args.op = "find_upstream_modules"
    /\ fn_out' = [kind |-> "modules",
                  as_module |-> find_upstream_modules(fn_args.module, FALSE),
                  as_package |-> find_upstream_modules(fn_args.module, TRUE)]
    /\ fn_pc' = "done"
    /\ UNCHANGED fn_args
    /\ UNCHANGED notFnVars

\* find_downstream_modules(module, false) and (module, true)
FindDownstreamModules ==
    /\ fn_pc = "start"
    /\ fn_args.op = "find_downstream_modules"
    /\ fn_out' = [kind |-> "modules",
                  as_module |-> find_downstream_modules(fn_args.module, FALSE),
                  as_package |-> find_downstream_modules(fn_args.module, TRUE)]
    /\ fn_pc' = "done"
    /\ UNCHANGED fn_args
    /\ UNCHANGED notFnVars

ReachNext == FindReach \/ FindUpstreamModules \/ FindDownstreamModules

\* The files a module of pkg or of ns.blue may have: <root>.py and
\* <root>/__init__.py for pkg, pkg.sub and ns.blue
ModuleFilePaths ==
    {<<Sep, "src", Sep, "pkg", DotPy>>, PkgInitPath, SubPyPath, SubInitPath,
     <<Sep, "src", Sep, "ns", Sep, "blue", DotPy>>,
     NsBlueDirectory \o <<Sep>> \o InitPy}

\* The file systems with any of these files
ModuleFileSystems ==
    {[variant |-> variant,
      files |-> [path \in paths |-> [readable |-> TRUE, code |-> NoImports]]] :
        variant \in {"Real", "Fake"}, paths \in SUBSET ModuleFilePaths}

\* A module and the found package that owns it
OwnedModules ==
    {[module |-> Module(<<"pkg">>), found_package |-> Pkg],
     [module |-> Module(<<"pkg", Dot, "sub">>), found_package |-> Pkg],
     [module |-> Module(<<"ns", Dot, "blue">>), found_package |-> NsBlue]}

FileInit ==
    /\ \E owned \in OwnedModules, file_system \in ModuleFileSystems :
          fn_args = [op |-> "_determine_module_filename",
                     module |-> owned.module,
                     found_package |-> owned.found_package,
                     file_system |-> file_system]
    /\ fn_out = NoResult
    /\ fn_pc = "start"

\* _determine_module_filename(module, found_package_for_module, file_system)
\* and, when it returned a file, _module_is_package(&module_filename, file_system)
DetermineModuleFilename ==
    /\ fn_pc = "start"
    /\ fn_args.op = "_determine_module_filename"
    /\ LET module_filename ==
               determine_module_filename(fn_args.module, fn_args.found_package,
                                         fn_args.file_system)
       IN  fn_out' =
               [kind |-> "module_file",
                module_filename |-> module_filename,
                is_package |->
                    IF module_filename.kind = "Ok"
                    THEN Some(module_is_package(module_filename.value,
                                                fn_args.file_system))
                    ELSE None]
    /\ fn_pc' = "done"
    /\ UNCHANGED fn_args
    /\ UNCHANGED notFnVars

FileNext == DetermineModuleFilename

(***************************************************************************)
(* Specifications                                                          *)
(***************************************************************************)
\* The graph queries on a graph snapshot
GraphSpecInit ==
    GraphInit /\ CodecIdle /\ FsIdle /\ ResolveIdle /\ ScanIdle /\ FnIdle

GraphSpec == GraphSpecInit /\ [][GraphNext]_vars

\* The cache codec on the dicts a caller may hand over
CodecSpecInit ==
    /\ CodecInit
    /\ GraphIdle /\ imports = AdjacencyOf({}) /\ FsIdle /\ ResolveIdle /\ ScanIdle
    /\ FnIdle

CodecSpec == CodecSpecInit /\ [][CodecNext]_vars

\* Cache files written and read through the file-system objects
CacheSpecInit ==
    /\ FsInit
    /\ GraphIdle /\ imports = AdjacencyOf({}) /\ CodecIdle /\ ResolveIdle /\ ScanIdle
    /\ FnIdle

CacheSpec == CacheSpecInit /\ [][FsNext]_vars

\* The resolver on importing modules and import names
ResolveSpecInit ==
    /\ ResolveInit
    /\ GraphIdle /\ imports = AdjacencyOf({}) /\ CodecIdle /\ FsIdle /\ ScanIdle
    /\ FnIdle

ResolveSpec == ResolveSpecInit /\ [][ResolveNext]_vars

\* The scanner on source trees, and its dict written to the cache and read
ScanSpecInit ==
    /\ ScanInit
    /\ GraphIdle /\ imports = AdjacencyOf({}) /\ CodecIdle /\ FsIdle /\ ResolveIdle
    /\ FnIdle

ScanSpecNext == ScanNext \/ CodecNext

ScanSpec == ScanSpecInit /\ [][ScanSpecNext]_vars

\* What stays idle in the specifications of a function called on its own
OthersIdle ==
    /\ GraphIdle /\ imports = AdjacencyOf({}) /\ CodecIdle /\ FsIdle /\ ResolveIdle
    /\ ScanIdle

\* The classification of absolute names against sets of internal modules
ClassifySpecInit == ClassifyInit /\ OthersIdle

ClassifySpec == ClassifySpecInit /\ [][ClassifyNext]_vars

\* One imported object taken through the loop body of the scanner
ImportSpecInit == ImportInit /\ OthersIdle

ImportSpec == ImportSpecInit /\ [][ImportNext]_vars

\* External names distilled against sets of found packages, and distilled again
DistillSpecInit == DistillInit /\ OthersIdle

DistillSpec == DistillSpecInit /\ [][DistillNext]_vars

\* The reach queries on a graph snapshot
ReachSpecInit ==
    ReachInit /\ CodecIdle /\ FsIdle /\ ResolveIdle /\ ScanIdle

ReachSpec == ReachSpecInit /\ [][ReachNext]_vars

\* The file of a module looked for in file systems with any of its files
FileSpecInit == FileInit /\ OthersIdle

FileSpec == FileSpecInit /\ [][FileNext]_vars

(***************************************************************************)
(* Claims about the cache codec                                            *)
(***************************************************************************)
\* Every DirectImport under key M has importer = M.name
ImporterIsKey(ibm) ==
    \A m \in DOMAIN ibm : \A d \in ibm[m] : d.importer = m.name

\* The cache document, token by token: a mapping from a module name to a list
\* of [imported_name, line_number, line_contents] triples
DocumentStep(q, t) ==
    CASE q = "start" /\ t = LBrace -> "first_key"
      [] q = "first_key" /\ t = RBrace -> "end"
      [] q \in {"first_key", "key"} /\ t.k = "str" -> "colon"
      [] q = "colon" /\ t = Colon -> "list"
      [] q = "list" /\ t = LBrack -> "first_triple"
      [] q = "first_triple" /\ t = RBrack -> "after_list"
      [] q \in {"first_triple", "triple"} /\ t = LBrack -> "imported_name"
      [] q = "imported_name" /\ t.k = "str" -> "comma_1"
      [] q = "comma_1" /\ t = Comma -> "line_number"
      [] q = "line_number" /\ t.k = "num" /\ t.n >= 0 -> "comma_2"
      [] q = "comma_2" /\ t = Comma -> "line_contents"
      [] q = "line_contents" /\ t.k = "str" -> "close_triple"
      [] q = "close_triple" /\ t = RBrack -> "after_triple"
      [] q = "after_triple" /\ t = Comma -> "triple"
      [] q = "after_triple" /\ t = RBrack -> "after_list"
      [] q = "after_list" /\ t = Comma -> "key"
      [] q = "after_list" /\ t = RBrace -> "end"
      [] OTHER -> "malformed"

RECURSIVE DocumentRun(_, _, _)
DocumentRun(text, i, q) ==
    IF i > Len(text) THEN q
    ELSE DocumentRun(text, i + 1, DocumentStep(q, text[i]))

WellFormedDocument(text) == DocumentRun(text, 1, "start") = "end"

\* C4: cache codec round trip.  For every dict in which each DirectImport
\* under key M has importer = M.name, parsing the serialized text succeeds and
\* gives the same dict: the same keys (those with an empty set included) and
\* the same DirectImports, all four fields, under each key.
C4_CacheRoundTrip ==
    (codec_pc = "read" /\ ImporterIsKey(imports_by_module))
        => read_result = Ok(imports_by_module)

\* C4 witness: a dict with a key holding two imports and a key holding none
\* was written and read back
C4_Witness ==
    /\ codec_pc = "read"
    /\ ImporterIsKey(imports_by_module)
    /\ \E m \in DOMAIN imports_by_module : imports_by_module[m] = {}
    /\ \E m \in DOMAIN imports_by_module : Cardinality(imports_by_module[m]) = 2
    /\ read_result.kind = "Ok"

C5_ReadReturnsLastWrite ==
    (/\ cache_read.called
     /\ last_written[cache_read.file_system][cache_read.filename].written)
        => cache_read.result =
               Ok(last_written[cache_read.file_system][cache_read.filename].value)

\* For the Real object the read does return the dict last written: the file is
\* replaced by every write, never merged or left as it was
RealReadReturnsLastWrite ==
    (/\ cache_read.called
     /\ cache_read.file_system = "RealBasicFileSystem"
     /\ last_written[cache_read.file_system][cache_read.filename].written)
        => cache_read.result =
               Ok(last_written[cache_read.file_system][cache_read.filename].value)

\* No write_cache_data_map_file call changes the contents of the Fake object
FakeObjectNeverWritten == [][fake_contents' = fake_contents]_vars

(***************************************************************************)
(* Claims about the import resolver                                        *)
(***************************************************************************)
\* The absolute name as the resolution rule words it: the name itself without
\* leading dots, else base + "." + name[k..]
NameByResolutionRule(module, is_package, name) ==
    LET k == count_leading_dots(name)
        parts == Split(module.name)
        len == Len(parts)
        base == IF is_package /\ k = 1 THEN module.name
                ELSE IF is_package THEN Join(SubSeq(parts, 1, len - k + 1))
                ELSE Join(SubSeq(parts, 1, len - k))
    IN  IF k = 0 THEN name ELSE base \o <<Dot>> \o DropFirst(name, k)

\* C9: absolute-name resolution.  What _get_absolute_imported_object_name
\* returns is the name unchanged when it has no leading dot, and otherwise
\* base + "." + name[k..], with base = M.name for a package and k = 1,
\* parts[0 .. len-k+1] joined for a package and k > 1, parts[0 .. len-k] joined
\* for a module that is not a package; and it does return for every k up to
\* the depth of M.
C9_AbsoluteNameResolution ==
    resolve_pc = "done" =>
        /\ resolve_out.kind = "Ok" =>
              resolve_out.value =
                  NameByResolutionRule(resolve_args.module,
                                       resolve_args.is_package,
                                       resolve_args.imported_object_name)
        /\ count_leading_dots(resolve_args.imported_object_name)
              <= Len(Split(resolve_args.module.name))
                  => resolve_out.kind = "Ok"

\* C9 witness: .helper imported by pkg.sub, not a package, resolved to
\* pkg.helper
C9_Witness ==
    /\ resolve_pc = "done"
    /\ resolve_args.module = Module(<<"pkg", Dot, "sub">>)
    /\ ~resolve_args.is_package
    /\ resolve_args.imported_object_name = <<Dot, "helper">>
    /\ resolve_out = Ok(<<"pkg", Dot, "helper">>)

\* C10: relative-import resolution never escapes above the top-level package.
\* For every importing module M, package flag and import name with k >= 1
\* leading dots, whatever k is, the resolution returns, and the first
\* component of the name it returns is the first component of M.
C10_NeverEscapesTopLevel ==
    (/\ resolve_pc = "done"
     /\ count_leading_dots(resolve_args.imported_object_name) >= 1)
        => /\ resolve_out.kind = "Ok"
           /\ Split(resolve_out.value)[1] = Split(resolve_args.module.name)[1]

\* Within the top-level package the first component is kept: k below the
\* depth of a module that is not a package, k up to the depth of a package
ResolutionWithinDepthKeepsTopLevel ==
    (/\ resolve_pc = "done"
     /\ count_leading_dots(resolve_args.imported_object_name) >= 1
     /\ count_leading_dots(resolve_args.imported_object_name)
            < Len(Split(resolve_args.module.name))
                + (IF resolve_args.is_package THEN 1 ELSE 0))
        => /\ resolve_out.kind = "Ok"
           /\ Split(resolve_out.value)[1] = Split(resolve_args.module.name)[1]

(***************************************************************************)
(* Claims about the scanner                                                *)
(***************************************************************************)
\* C6: importer invariant.  In every ImportsByModule the scanner returns, and
\* in every one a cache read returns, each DirectImport of the set stored
\* under key M has importer = M.name; it holds of the scanner's dict while it
\* is being filled, too.
C6_ImporterInvariant ==
    /\ scan_result.kind = "Ok" => ImporterIsKey(scan_result.value)
    /\ scan_pc = "loop" => ImporterIsKey(scanned)
    /\ read_result.kind = "Ok" => ImporterIsKey(read_result.value)

\* C6 witness: the scanner returned a dict with an import in it, and the dict
\* was written to the cache and read back with that import
C6_Witness ==
    /\ scan_pc = "cached"
    /\ scan_result.kind = "Ok"
    /\ \E m \in DOMAIN scan_result.value : scan_result.value[m] # {}
    /\ codec_pc = "read"
    /\ read_result.kind = "Ok"
    /\ \E m \in DOMAIN read_result.value : read_result.value[m] # {}

\* Why a module cannot be scanned, "none" when it can: no FoundPackage lists
\* it, none of its candidate files exists, its file cannot be read, or its
\* text does not parse
ModuleFailure(module, args) ==
    LET owners == {package \in args.found_packages :
                      module \in get_modules_from_found_packages({package})}
        filenames == {determine_module_filename(module, package, args.file_system) :
                         package \in owners}
        found == {filename.value : filename \in {f \in filenames : f.kind = "Ok"}}
        texts == {FileSystemReadSource(args.file_system, filename) :
                     filename \in found}
    IN  IF owners = {} THEN "MissingOwner"
        ELSE IF found = {} THEN "ModuleFileNotFound"
        ELSE IF \E text \in texts : text.kind # "Ok" THEN "Unreadable"
        ELSE IF \E text \in texts : ~text.value.parsed THEN "ParseError"
        ELSE "none"

\* The kinds of the error values of the core
TypedErrorKinds ==
    {"MissingOwner", "ModuleFileNotFound", "DecodeError", "FileNotFoundError",
     "ParseError"}

\* C8: scanner all-or-nothing.  scan_for_imports_no_py ends with a dict whose
\* keys are exactly the input modules, or with a typed error value and no
\* dict; when a module has no owner, no existing candidate file, an unreadable
\* file or a parse failure, the call ends with the error value: the module is
\* not skipped and the call does not panic.
C8_ScannerAllOrNothing ==
    scan_pc = "done" =>
        /\ scan_result.kind = "Ok" =>
              DOMAIN scan_result.value = scan_args.modules
        /\ (\E module \in scan_args.modules :
                ModuleFailure(module, scan_args) # "none")
              => scan_result.kind \in TypedErrorKinds

\* What the scanner does keep of it: a dict is returned only when no module
\* fails, its keys are then exactly the input modules, and a ParseError is
\* returned only when the text of some module does not parse
ScannerNeverSkips ==
    scan_pc = "done" =>
        /\ scan_result.kind \in {"Ok", "ParseError", "Panic"}
        /\ scan_result.kind = "Ok" =>
              /\ DOMAIN scan_result.value = scan_args.modules
              /\ \A module \in scan_args.modules :
                    ModuleFailure(module, scan_args) = "none"
        /\ scan_result.kind = "ParseError" =>
              \E module \in scan_args.modules :
                  ModuleFailure(module, scan_args) = "ParseError"

(***************************************************************************)
(* Claims about the classification of an absolute name                     *)
(***************************************************************************)
\* A with its last dotted component removed
ImmediateParent(name) == SubSeq(name, 1, LastDot(name) - 1)

\* C11: internal classification.  For absolute name A and internal module set
\* S, _get_internal_module returns A when A is in S; otherwise, when A holds a
\* dot and its immediate parent P is in S, it returns P; otherwise None.  No
\* other ancestor of A is ever returned.
C11_InternalClassification ==
    (fn_pc = "done" /\ fn_args.op = "_get_internal_module") =>
        LET A == fn_args.imported_object_name
            S == fn_args.all_modules
        IN  /\ fn_out = IF Module(A) \in S THEN Some(Module(A))
                        ELSE IF LastDot(A) # 0 /\ Module(ImmediateParent(A)) \in S
                        THEN Some(Module(ImmediateParent(A)))
                        ELSE None
            /\ fn_out.kind = "Some" =>
                  fn_out.value.name \in {A, ImmediateParent(A)}

\* C11 witness: pkg.child.x classified against a set that holds the
\* grandparent pkg but neither pkg.child.x nor pkg.child: external
C11_Witness ==
    /\ fn_pc = "done"
    /\ fn_args.op = "_get_internal_module"
    /\ fn_args.imported_object_name = <<"pkg", Dot, "child", Dot, "x">>
    /\ Module(<<"pkg">>) \in fn_args.all_modules
    /\ Module(<<"pkg", Dot, "child">>) \notin fn_args.all_modules
    /\ Module(<<"pkg", Dot, "child", Dot, "x">>) \notin fn_args.all_modules
    /\ fn_out = None

(***************************************************************************)
(* Claims about one imported object in the scanner                         *)
(***************************************************************************)
\* The call has taken an imported object through the loop body and has not
\* skipped it as a type-checking import
ImportedObjectScanned ==
    /\ fn_pc = "done"
    /\ fn_args.op = "imported_object"
    /\ ~fn_out.skipped

\* The DirectImport of the scanned object with the name given as imported
EmittedImport(imported) ==
    DirectImport(fn_args.module.name, imported,
                 fn_args.imported_object.line_number,
                 fn_args.imported_object.line_contents)

\* C12: relative-from inside a package's __init__.  For the package pkg whose
\* source holds "from .child import x", the DirectImport has imported =
\* pkg.child when pkg.child is an internal module, imported = pkg when
\* pkg.child is not internal but pkg is, and the import is treated as external
\* only when neither is internal.
C12_RelativeFromInPackageInit ==
    (/\ ImportedObjectScanned
     /\ fn_args.module = Module(<<"pkg">>)
     /\ fn_args.is_package
     /\ fn_args.imported_object.name = <<Dot, "child", Dot, "x">>)
        => LET S == get_modules_from_found_packages(fn_args.found_packages)
           IN  IF Module(<<"pkg", Dot, "child">>) \in S
               THEN fn_out.inserted = Ok({EmittedImport(<<"pkg", Dot, "child">>)})
               ELSE IF Module(<<"pkg">>) \in S
               THEN /\ fn_out.inserted = Ok({EmittedImport(<<"pkg">>)})
                    /\ fn_out.internal # None
               ELSE fn_out.internal = None

\* What the scanner does for that import: pkg.child when it is internal, and
\* else the external branch, whether pkg is internal or not
RelativeFromChecksParentOnly ==
    (/\ ImportedObjectScanned
     /\ fn_args.module = Module(<<"pkg">>)
     /\ fn_args.is_package
     /\ fn_args.imported_object.name = <<Dot, "child", Dot, "x">>)
        => LET S == get_modules_from_found_packages(fn_args.found_packages)
           IN  IF Module(<<"pkg", Dot, "child">>) \in S
               THEN fn_out.inserted = Ok({EmittedImport(<<"pkg", Dot, "child">>)})
               ELSE /\ fn_out.internal = None
                    /\ ~fn_args.include_external_packages
                           => fn_out.inserted = Ok({})

\* The scanned object went down the external branch: its absolute name was
\* resolved and classified as not internal
ClassifiedExternal ==
    /\ ImportedObjectScanned
    /\ fn_out.absolute.kind = "Ok"
    /\ fn_out.internal = None

\* Some found package's name starts with X + "."
IsNamespaceParent(X, found_packages) ==
    \E package \in found_packages :
        /\ Len(package.name) > Len(X)
        /\ SubSeq(package.name, 1, Len(X) + 1) = X \o <<Dot>>

\* C14: namespace-parent suppression.  When some found package's name starts
\* with X + ".", _distill_external_module returns no external import for the
\* external name X and the scanner emits no DirectImport for that import, even
\* when include_external_packages is true.
C14_NamespaceParentSuppressed ==
    (/\ ClassifiedExternal
     /\ IsNamespaceParent(fn_out.absolute.value, fn_args.found_packages))
        => /\ fn_out.external = None
           /\ fn_out.inserted = Ok({})

\* C14 witness: mylib imported with the internal package mylib.sub and
\* include_external_packages true; nothing was emitted
C14_Witness ==
    /\ ClassifiedExternal
    /\ fn_out.absolute.value = <<"mylib">>
    /\ MylibSub \in fn_args.found_packages
    /\ fn_args.include_external_packages
    /\ fn_out.external = None
    /\ fn_out.inserted = Ok({})

\* C15: external edges never shadow internal packages.  The imported name of
\* every DirectImport emitted on the external branch is not the name of a
\* found package, not the name of an internal module, and not a dotted
\* ancestor of the name of a found package.
C15_ExternalNeverShadowsInternal ==
    (ClassifiedExternal /\ fn_out.inserted.kind = "Ok") =>
        \A import \in fn_out.inserted.value :
            /\ \A package \in fn_args.found_packages :
                  import.imported # package.name
            /\ Module(import.imported) \notin
                   get_modules_from_found_packages(fn_args.found_packages)
            /\ ~IsNamespaceParent(import.imported, fn_args.found_packages)

\* What does hold of the external branch: no name emitted there is a dotted
\* ancestor of a found package's name
ExternalNeverNamespaceParent ==
    (ClassifiedExternal /\ fn_out.inserted.kind = "Ok") =>
        \A import \in fn_out.inserted.value :
            ~IsNamespaceParent(import.imported, fn_args.found_packages)

\* C17: external-import flag.  With include_external_packages false every
\* DirectImport emitted has an imported name of the internal module set.  With
\* it true, an import classified as external contributes exactly one
\* DirectImport, whose imported field is the name the distillation returned,
\* and none when the distillation returned no external import.
C17_ExternalImportFlag ==
    ImportedObjectScanned =>
        /\ ~fn_args.include_external_packages =>
              \A import \in (IF fn_out.inserted.kind = "Ok"
                             THEN fn_out.inserted.value ELSE {}) :
                  Module(import.imported) \in
                      get_modules_from_found_packages(fn_args.found_packages)
        /\ (ClassifiedExternal /\ fn_args.include_external_packages) =>
              /\ fn_out.external.kind = "Some" =>
                    fn_out.inserted = Ok({EmittedImport(fn_out.external.value)})
              /\ fn_out.external = None => fn_out.inserted = Ok({})

\* C17 witness: os.path imported with include_external_packages true; the one
\* DirectImport emitted has imported = os
C17_Witness ==
    /\ ClassifiedExternal
    /\ fn_args.include_external_packages
    /\ fn_out.absolute.value = <<"os", Dot, "path">>
    /\ fn_out.external = Some(<<"os">>)
    /\ fn_out.inserted = Ok({EmittedImport(<<"os">>)})

(***************************************************************************)
(* Claims about the distillation of external names                         *)
(***************************************************************************)

\* The number of leading components two lists of components share
RECURSIVE CommonPrefixLength(_, _)
CommonPrefixLength(components, others) ==
    IF Len(components) = 0 \/ Len(others) = 0 THEN 0
    ELSE IF components[1] # others[1] THEN 0
    ELSE 1 + CommonPrefixLength(Tail(components), Tail(others))

\* The found packages whose first component is that of X
SharingPackages(X, found_packages) ==
    {package \in found_packages : Split(package.name)[1] = Split(X)[1]}

\* The name the distillation rule gives X: the longest dotted prefix X shares
\* with a package that shares its first component, and the next component of
\* X; the first component of X when no package shares it
DistilledByRule(X, found_packages) ==
    LET shared == {CommonPrefixLength(Split(X), Split(package.name)) :
                      package \in SharingPackages(X, found_packages)}
        longest == CHOOSE n \in shared : \A other \in shared : other <= n
    IN  IF shared = {} THEN Split(X)[1]
        ELSE Join(SubSeq(Split(X), 1, longest + 1))

\* X is external to the found packages and no package lies below it
DistillableExternal(X, found_packages) ==
    /\ get_internal_module(X, get_modules_from_found_packages(found_packages)) = None
    /\ ~IsNamespaceParent(X, found_packages)
    /\ \A package \in found_packages : package.name # X

\* C13: distillation on namespace collision.  For every external X, those
\* below the name of a found package included, and found packages none of
\* which is a strict descendant of X, the distillation returns a value without
\* failing: the longest common dotted prefix and the next component of X when
\* a package shares the first component of X, else the first component of X.
C13_DistillationOnNamespaceCollision ==
    (/\ fn_pc = "distilled"
     /\ DistillableExternal(fn_args.module_name, fn_args.found_packages))
        => fn_out.first = Some(DistilledByRule(fn_args.module_name,
                                               fn_args.found_packages))

\* The two examples of the documentation of _distill_external_module:
\* foo.blue.alpha.one is distilled to foo.blue.alpha beside foo.blue.beta and
\* to foo.blue beside foo.green
DistillationOfDocumentedExamples ==
    (fn_pc = "distilled"
     /\ fn_args.module_name = <<"foo", Dot, "blue", Dot, "alpha", Dot, "one">>)
        => /\ fn_args.found_packages = {FooBlueBeta}
                => fn_out.first = Some(<<"foo", Dot, "blue", Dot, "alpha">>)
           /\ fn_args.found_packages = {FooGreen}
                => fn_out.first = Some(<<"foo", Dot, "blue">>)

\* C16: distillation idempotence.  A name X the distillation returned is
\* returned unchanged when it is distilled again against the same found
\* packages, unless some package is a strict descendant of X: then the
\* distillation returns no external import.
C16_DistillationIdempotent ==
    fn_pc = "again"
        => fn_out.again =
               IF IsNamespaceParent(fn_out.first.value, fn_args.found_packages)
               THEN None
               ELSE Some(fn_out.first.value)

\* C16 witness: foo.blue.alpha, distilled from foo.blue.alpha.one beside
\* foo.blue.beta, is distilled to itself
C16_Witness ==
    /\ fn_pc = "again"
    /\ fn_args.module_name = <<"foo", Dot, "blue", Dot, "alpha", Dot, "one">>
    /\ fn_args.found_packages = {FooBlueBeta}
    /\ fn_out.first = Some(<<"foo", Dot, "blue", Dot, "alpha">>)
    /\ fn_out.again = Some(<<"foo", Dot, "blue", Dot, "alpha">>)

(***************************************************************************)
(* Claims about the reach queries                                          *)
(***************************************************************************)

RECURSIVE PathBelow(_, _)
PathBelow(directory, components) ==
    IF Len(components) = 0 THEN directory
    ELSE PathBelow(directory \o <<Sep>> \o components[1], Tail(components))

\* The directory of the owning package joined with the components of the
\* module's name beyond the package's own depth
ModuleRoot(module, found_package) ==
    PathBelow(found_package.directory,
              DropFirst(Split(module.name), Len(Split(found_package.name))))

\* The last component of a path is __init__.py
EndsWithInitPy(path) ==
    /\ Len(path) >= 2
    /\ SubSeq(path, Len(path) - 1, Len(path)) = InitPy
    /\ Len(path) > 2 => path[Len(path) - 2] = Sep

\* C19: module file selection order.  _determine_module_filename returns
\* <root>.py when it exists, else <root>/__init__.py when that exists, root
\* being the package's directory joined with the components of the module's
\* name beyond the package's depth; so when both exist the .py file is chosen.
\* The module is treated as a package exactly when the last component of the
\* chosen file is __init__.py.
C19_ModuleFileSelectionOrder ==
    fn_pc = "done" =>
        LET root == ModuleRoot(fn_args.module, fn_args.found_package)
            py == root \o <<DotPy>>
            init == root \o <<Sep>> \o InitPy
            files == DOMAIN fn_args.file_system.files
        IN  /\ py \in files => fn_out.module_filename = Ok(py)
            /\ (py \notin files /\ init \in files)
                  => fn_out.module_filename = Ok(init)
            /\ (py \notin files /\ init \notin files)
                  => fn_out.module_filename.kind = "Err"
            /\ fn_out.module_filename.kind = "Ok"
                  => fn_out.is_package =
                         Some(EndsWithInitPy(fn_out.module_filename.value))

\* C19 witness: pkg/sub.py and pkg/sub/__init__.py both exist; pkg/sub.py is
\* chosen for pkg.sub, which is then not a package
C19_Witness ==
    /\ fn_pc = "done"
    /\ fn_args.module = Module(<<"pkg", Dot, "sub">>)
    /\ {SubPyPath, SubInitPath} \subseteq DOMAIN fn_args.file_system.files
    /\ fn_out.module_filename = Ok(SubPyPath)
    /\ fn_out.is_package = Some(FALSE)
====
